---------------------------- MODULE Spec2Model ----------------------------
(***************************************************************************)
(* A model of the stock-forecasting backend: the sequence learners         *)
(* (LSTMModel, AttentionModel), the stacking EnsembleModel, the            *)
(* DataProcessor (Sequence Windower, Indicator Engine) and the host's      *)
(* predict/train handlers with their forecast driver.                      *)
(*                                                                         *)
(* Numbers.  Prices are integers.  A MinMaxScaler maps x to                *)
(* (x - data_min) / (data_max - data_min); a scaled value is kept as its   *)
(* numerator x - data_min over that fixed denominator, so transform and    *)
(* inverse_transform are a subtraction and an addition of data_min.        *)
(* Percentages are kept as a numerator over the current price, so the      *)
(* thresholds are compared exactly.  Confidence is kept in hundredths.     *)
(*                                                                         *)
(* Library regressors (scikit-learn, xgboost) are opaque: a fit stores     *)
(* what the estimator read from its training set (RegressorFit below) and  *)
(* a prediction is a fixed function of that and of the input row.          *)
(*                                                                         *)
(* Locals of the code are bound with Let1, which computes a value once.    *)
(***************************************************************************)
EXTENDS Integers, Sequences, FiniteSets, TLC

VARIABLES
    core,      \* the model instance driven through the core's public surface
    call,      \* the pending result of the last train/predict call on core
    trained,   \* history: whether a train call on core has returned
    models,    \* app.py: the global registry, model_type -> <<>> (None) or <<m>>
    resp,      \* the pending HTTP response of the host handler
    win,       \* the Sequence Windower's last input and output
    ind,       \* the Indicator Engine's last input and output
    threads,   \* the host's request threads: where each is in its handler
    split      \* the last train/validation split computed by a train call

vars == <<core, call, trained, models, resp, win, ind, threads, split>>

---------------------------------------------------------------------------
(* Bounds of the model and constants of the program *)

\* sequence_length given to the model constructors (the default is 60)
SeqLen == 3
\* largest days_ahead of a core call
MaxCoreDays == 3
\* largest days_ahead of a host request
MaxDays == 32
\* validation_split default of train(), in percent
ValidationPct == 20
\* rolling window of MA_50 in EnsembleModel.create_features
MA50Window == 50
\* number of trailing closes the linear-trend fallback reads
TrendWindow == 10
\* number of tabular learners in base_models
NumTabular == 5

\* the float nan, kept as a number no price reaches
NaN == 0 - 1000000

\* F applied to the value of e
Let1(e, F(_)) == CHOOSE r \in {F(v) : v \in {e}} : TRUE

Min(a, b) == IF a <= b THEN a ELSE b
Max(a, b) == IF a >= b THEN a ELSE b
Abs(a) == IF a >= 0 THEN a ELSE 0 - a

UntrainedError == "Model must be trained before making predictions"
NotFittedError == "This estimator instance is not fitted yet"
PredictError == "Error making predictions"
LearnerError == "the learner's fit or predict failed"
TrainErrorOf(kind) ==
    CASE kind = "lstm" -> "Error training model"
      [] kind = "attention" -> "Error training attention model"
      [] OTHER -> "Error training ensemble model"

---------------------------------------------------------------------------
(* OHLCV frames.  A frame is kept by the parameters of its Close column:   *)
(* n rows, Close(i) = c0 + step*(i-1), plus a jump on row jrow; date is    *)
(* the day number of its last index entry.  The other columns are positive *)
(* and play no part; prepared tells that the indicator columns are there.  *)

Close(d, i) == d.c0 + d.step * (i - 1) + (IF i = d.jrow THEN d.jump ELSE 0)

CloseValues(d) == [i \in 1..d.n |-> Close(d, i)]

\* data.iloc[:k]
Iloc(d, k) == [d EXCEPT !.n = Min(Max(k, 0), d.n)]

Frame(n, last, step, jump, date) ==
    [n |-> n, c0 |-> last - step * (n - 1) - jump, step |-> step,
     jrow |-> IF jump = 0 THEN 0 ELSE n, jump |-> jump, date |-> date,
     prepared |-> FALSE]

SeqMin(s) == CHOOSE x \in {s[i] : i \in 1..Len(s)} : \A j \in 1..Len(s) : x <= s[j]
SeqMax(s) == CHOOSE x \in {s[i] : i \in 1..Len(s)} : \A j \in 1..Len(s) : x >= s[j]

---------------------------------------------------------------------------
(* sklearn.preprocessing.MinMaxScaler as the models use it *)

UnfittedScaler == [fitted |-> FALSE, data_min |-> 0, data_max |-> 0]

ScalerFit(values) ==
    [fitted |-> TRUE, data_min |-> SeqMin(values), data_max |-> SeqMax(values)]

ScalerTransform(sc, values) == [i \in 1..Len(values) |-> values[i] - sc.data_min]

ScalerInverse(sc, values) == [i \in 1..Len(values) |-> values[i] + sc.data_min]

---------------------------------------------------------------------------
(* The regressor behind a sequence learner.  fit keeps the number of input *)
(* features and the step from the last training window to its target;      *)
(* predict adds that step to the newest raw value of the window.           *)

UnfittedRegressor == [fitted |-> FALSE, n_features |-> 0, read |-> 0, drift |-> 0]

RegressorFit(X_train, y_train, read) ==
    LET k == Len(X_train) IN
    [fitted |-> TRUE, n_features |-> Len(X_train[1]), read |-> read,
     drift |-> y_train[k] - X_train[k][read]]

RegressorAccepts(reg, row) == reg.fitted /\ Len(row) = reg.n_features

RegressorPredict(reg, row) == row[reg.read] + reg.drift

---------------------------------------------------------------------------
(* Helpers on sequences *)

RECURSIVE SumSeq(_)
SumSeq(s) == IF s = <<>> THEN 0 ELSE Head(s) + SumSeq(Tail(s))

\* s[a:b] of Python for 0 <= a <= b <= Len(s)
Slice(s, a, b) == SubSeq(s, a + 1, b)

\* s[-k:] of Python for k >= 1
LastK(s, k) == SubSeq(s, Max(Len(s) - k, 0) + 1, Len(s))

\* the validation fractions a train call is given, in percent: the default
\* 0.2, and 0.5 and 0.8
ValidationPcts == {ValidationPct, 50, 80}

\* 1 - validation_split is a double: 1 - 0.2 is 0.8 and 1 - 0.5 is 0.5, but
\* 1 - 0.8 is 0.19999999999999996, and for every len in 5, 10, ..., 2000 the
\* double len * 0.19999999999999996 lies below the integer len / 5
FloatShortfall(len, pct) == pct = 80 /\ len > 0 /\ len % 5 = 0

\* int(len * (1 - validation_split)): the double product, truncated
TrainSize(len, pct) ==
    IF FloatShortfall(len, pct)
    THEN ((len * (100 - pct)) \div 100) - 1
    ELSE (len * (100 - pct)) \div 100

\* mean_squared_error, mean_absolute_error and the MAPE, rounded down
MeanSquaredError(actual, pred) ==
    SumSeq([i \in 1..Len(actual) |-> (actual[i] - pred[i]) * (actual[i] - pred[i])])
        \div Len(actual)

MeanAbsoluteError(actual, pred) ==
    SumSeq([i \in 1..Len(actual) |-> Abs(actual[i] - pred[i])]) \div Len(actual)

Mape(actual, pred) ==
    SumSeq([i \in 1..Len(actual) |-> (Abs(actual[i] - pred[i]) * 100) \div actual[i]])
        \div Len(actual)

\* an accuracy without its floor
AccuracyNoFloor(mape) == 100 - mape

\* max(0, 100 - mape)
AccuracyOf(mape) == Max(0, 100 - mape)

NoHistory == [set |-> FALSE, final_mse |-> 0, final_mae |-> 0, accuracy |-> 0]

History(mse, mae, acc) ==
    [set |-> TRUE, final_mse |-> mse, final_mae |-> mae, accuracy |-> acc]

---------------------------------------------------------------------------
(* The Sequence Windower: DataProcessor.create_sequences and the models'   *)
(* prepare_sequences.                                                      *)

\* a loop body whose window runs one value too far, over its own target
WindowAtShifted(values, sequence_length, i) ==
    [window |-> Slice(values, i - sequence_length + 1, i + 1), target |-> values[i + 1]]

\* the body of the loop for one i (0-based): X.append(values[i-L:i]), y.append(values[i])
WindowAt(values, sequence_length, i) ==
    [window |-> Slice(values, i - sequence_length, i), target |-> values[i + 1]]

\* for i in range(sequence_length, len(values)): the pairs appended, in order
WindowLoop(values, sequence_length) ==
    [k \in 1..Max(0, Len(values) - sequence_length) |->
        WindowAt(values, sequence_length, sequence_length + k - 1)]

\* return np.array(X), np.array(y)
WindowArrays(pairs) ==
    [X |-> [k \in 1..Len(pairs) |-> pairs[k].window],
     y |-> [k \in 1..Len(pairs) |-> pairs[k].target]]

\* DataProcessor.create_sequences; LSTMModel.prepare_sequences is the same loop
create_sequences(values, sequence_length) ==
    Let1(WindowLoop(values, sequence_length), WindowArrays)

\* np.exp(p / L) in thousandths, by its series up to the cubic term
ExpMilli(p, L) ==
    1000 + (1000 * p) \div L + (1000 * p * p) \div (2 * L * L)
         + (1000 * p * p * p) \div (6 * L * L * L)

\* AttentionModel: [sequence, positions, weighted_sequence]; positions are the
\* numerators of p / L, the weighted values are in thousandths
AttentionFeatures(sequence) ==
    sequence \o [p \in 1..Len(sequence) |-> p - 1]
             \o [p \in 1..Len(sequence) |-> sequence[p] * ExpMilli(p - 1, Len(sequence))]

AttentionArrays(w) ==
    [X |-> [k \in 1..Len(w.X) |-> AttentionFeatures(w.X[k])], y |-> w.y]

\* LSTMModel.prepare_sequences / AttentionModel.prepare_sequences
prepare_sequences(self, data) ==
    IF self.kind = "attention"
    THEN Let1(create_sequences(data, self.sequence_length), AttentionArrays)
    ELSE create_sequences(data, self.sequence_length)

\* the regressor input built from the rolling buffer in predict
PredictInput(self, current_sequence) ==
    IF self.kind = "attention" THEN AttentionFeatures(current_sequence)
    ELSE current_sequence

---------------------------------------------------------------------------
(* LSTMModel and AttentionModel *)

NewSequenceModel(kind, sequence_length) ==
    [kind |-> kind, sequence_length |-> sequence_length,
     model |-> UnfittedRegressor, scaler |-> UnfittedScaler,
     is_trained |-> FALSE, training_history |-> NoHistory, accuracy |-> 0]

Raised(self, error) ==
    [self |-> self, raised |-> TRUE, error |-> error, result |-> <<>>]

Returned(self, result) ==
    [self |-> self, raised |-> FALSE, error |-> "", result |-> result]

\* self.accuracy = max(0, 100 - mape); self.is_trained = True;
\* self.training_history = {...}; return self.training_history
TrainReturn(self, hist) ==
    Returned([self EXCEPT !.accuracy = hist.accuracy,
                          !.is_trained = TRUE,
                          !.training_history = hist],
             hist)

\* mse, mae, mape of the validation predictions in price units
TrainEvaluate(self, y_val_actual, val_predictions) ==
    Let1(History(MeanSquaredError(y_val_actual, val_predictions),
                 MeanAbsoluteError(y_val_actual, val_predictions),
                 AccuracyOf(Mape(y_val_actual, val_predictions))),
         LAMBDA hist : TrainReturn(self, hist))

\* self.model.fit(X_train, y_train), then the validation predictions, both
\* sides inverse-transformed; fit and predict reject an empty matrix
SequenceTrainFit(self, sc, X_train, X_val, y_train, y_val) ==
    IF Len(X_train) = 0
    THEN Raised([self EXCEPT !.scaler = sc], TrainErrorOf(self.kind))
    ELSE
    Let1(RegressorFit(X_train, y_train, self.sequence_length), LAMBDA reg :
      IF Len(X_val) = 0
      THEN Raised([self EXCEPT !.scaler = sc, !.model = reg], TrainErrorOf(self.kind))
      ELSE
      Let1(ScalerInverse(sc, [k \in 1..Len(X_val) |-> RegressorPredict(reg, X_val[k])]),
           LAMBDA val_predictions :
      Let1(ScalerInverse(sc, y_val), LAMBDA y_val_actual :
        TrainEvaluate([self EXCEPT !.scaler = sc, !.model = reg],
                      y_val_actual, val_predictions))))

\* LSTMModel.train / AttentionModel.train
SequenceTrain(self, data, validation_pct) ==
    IF data.n = 0
    THEN \* fit_transform resets the scaler, then rejects the empty column
         Raised([self EXCEPT !.scaler = UnfittedScaler], TrainErrorOf(self.kind))
    ELSE
    Let1(CloseValues(data), LAMBDA close_prices :
    Let1(ScalerFit(close_prices), LAMBDA sc :
    Let1(ScalerTransform(sc, close_prices), LAMBDA scaled_data :
    Let1(prepare_sequences(self, scaled_data), LAMBDA seqs :
    Let1(TrainSize(Len(seqs.X), validation_pct), LAMBDA train_size :
      SequenceTrainFit(self, sc,
          Slice(seqs.X, 0, train_size), Slice(seqs.X, train_size, Len(seqs.X)),
          Slice(seqs.y, 0, train_size), Slice(seqs.y, train_size, Len(seqs.y))))))))

\* the last cell overwritten without the roll (the mutant)
RollInNoShift(current_sequence, next_pred) ==
    [current_sequence EXCEPT ![Len(current_sequence)] = next_pred]

\* np.roll(current_sequence, -1), then current_sequence[-1] = next_pred
RollIn(current_sequence, next_pred) ==
    [Tail(current_sequence) \o <<Head(current_sequence)>>
        EXCEPT ![Len(current_sequence)] = next_pred]

\* one pass of the loop of predict: the next prediction is appended and
\* rolled into the buffer
PredictStep(self, st) ==
    Let1(RegressorPredict(self.model, PredictInput(self, st.current_sequence)),
         LAMBDA next_pred :
      [current_sequence |-> RollIn(st.current_sequence, next_pred),
       predictions |-> Append(st.predictions, next_pred)])

\* for _ in range(days_ahead): the buffer and the predictions after i passes
RECURSIVE PredictLoop(_, _, _)
PredictLoop(self, last_sequence, i) ==
    IF i <= 0
    THEN [current_sequence |-> last_sequence, predictions |-> <<>>]
    ELSE CHOOSE r \in {PredictStep(self, st) :
                          st \in {PredictLoop(self, last_sequence, i - 1)}} : TRUE

\* if not self.is_trained or self.model is None (model is never None)
SequenceUntrained(self) == ~self.is_trained

\* the try block of LSTMModel.predict / AttentionModel.predict
SequencePredictBody(self, data, days_ahead) ==
    IF data.n = 0
    THEN Raised(self, PredictError)      \* scaler.transform of no rows
    ELSE
    Let1(ScalerTransform(self.scaler, CloseValues(data)), LAMBDA scaled_data :
    Let1(LastK(scaled_data, self.sequence_length), LAMBDA last_sequence :
      IF days_ahead <= 0
      THEN Raised(self, PredictError)    \* inverse_transform of no rows
      ELSE IF ~RegressorAccepts(self.model, PredictInput(self, last_sequence))
      THEN Raised(self, PredictError)    \* too few rows for one window
      ELSE Let1(PredictLoop(self, last_sequence, days_ahead), LAMBDA done :
             Returned(self, ScalerInverse(self.scaler, done.predictions)))))

\* a predict that trains an untrained model on the data it is given
SequencePredictOnDemand(self, data, days_ahead) ==
    IF SequenceUntrained(self)
    THEN Let1(SequenceTrain(self, data, ValidationPct), LAMBDA t :
           IF t.raised THEN Raised(t.self, UntrainedError)
           ELSE SequencePredictBody(t.self, data, days_ahead))
    ELSE SequencePredictBody(self, data, days_ahead)

\* LSTMModel.predict / AttentionModel.predict
SequencePredict(self, data, days_ahead) ==
    IF SequenceUntrained(self)
    THEN Raised(self, UntrainedError)
    ELSE SequencePredictBody(self, data, days_ahead)

\* get_accuracy
GetAccuracy(self) == IF self.is_trained THEN self.accuracy ELSE 0

---------------------------------------------------------------------------
(* EnsembleModel *)

\* create_features ends with dropna(): a row stays when MA_50 is defined on it
\* (49 leading rows are not) and RSI is (some close changed within its 14 rows;
\* gain / loss is 0 / 0 otherwise, and then so is the Bollinger position)
RowKept(d, i) ==
    /\ i >= MA50Window
    /\ \E j \in Max(2, i - 12)..i : Close(d, j) # Close(d, j - 1)

RECURSIVE KeptRows(_, _)
KeptRows(d, i) ==
    IF i > d.n THEN <<>>
    ELSE (IF RowKept(d, i) THEN <<i>> ELSE <<>>) \o KeptRows(d, i + 1)

\* one row of the feature columns: MA_5 (rounded down) and the close's change
FeatureRow(d, i) ==
    <<(Close(d, i) + Close(d, i - 1) + Close(d, i - 2) + Close(d, i - 3)
          + Close(d, i - 4)) \div 5,
      Close(d, i) - Close(d, i - 1)>>

FeatureColumns(data, rows) ==
    [X |-> [k \in 1..Len(rows) |-> FeatureRow(data, rows[k])],
     y |-> [k \in 1..Len(rows) |-> Close(data, rows[k])]]

\* prepare_ensemble_data: X = the feature columns, y = Close of the kept rows
prepare_ensemble_data(data) ==
    Let1(KeptRows(data, MA50Window), LAMBDA rows : FeatureColumns(data, rows))

\* np.mean, rounded down
MeanOf(s) == SumSeq(s) \div Len(s)

\* faulty is the index in base_models of a learner whose fit and predict throw
\* (one put there in place of the library's), 0 when there is none
NewEnsembleModel(sequence_length) ==
    [kind |-> "ensemble", sequence_length |-> sequence_length,
     scaler |-> UnfittedScaler, is_trained |-> FALSE, accuracy |-> 0,
     lstm_model |-> NewSequenceModel("lstm", sequence_length),
     attention_model |-> NewSequenceModel("attention", sequence_length),
     base_models |-> [b \in 1..NumTabular |-> UnfittedRegressor],
     faulty |-> 0,
     xgb_model |-> UnfittedRegressor,
     training_history |-> NoHistory]

\* a stack that puts the original features before the predictions
StackFeaturesFirst(base_columns, seq_column, X) ==
    [k \in 1..Len(X) |->
        X[k] \o [b \in 1..Len(base_columns) |-> base_columns[b][k]]
            \o <<seq_column[k]>>]

\* np.column_stack of the base predictions, then of the original features
Stack(base_columns, seq_column, X) ==
    [k \in 1..Len(X) |->
        [b \in 1..Len(base_columns) |-> base_columns[b][k]]
            \o <<seq_column[k]>> \o X[k]]

\* model.predict(X) of every tabular learner
BasePredictions(self, X) ==
    [b \in 1..NumTabular |->
        [k \in 1..Len(X) |-> RegressorPredict(self.base_models[b], X[k])]]

\* self.xgb_model.fit(stacked_train, y_train, eval_set=[(stacked_val, y_val)]),
\* val_predictions = self.xgb_model.predict(stacked_val) and the metrics
EnsembleTrainMeta(self, stacked_train, stacked_val, y_train, y_val) ==
    Let1(RegressorFit(stacked_train, y_train, NumTabular + 1), LAMBDA xgb :
    Let1([k \in 1..Len(stacked_val) |-> RegressorPredict(xgb, stacked_val[k])],
         LAMBDA val_predictions :
      TrainEvaluate([self EXCEPT !.xgb_model = xgb], y_val, val_predictions)))

\* the two stacked matrices; seq holds the sequence learner and its columns
EnsembleTrainStack(self, seq, X_train, X_val, y_train, y_val) ==
    Let1(Stack(BasePredictions(self, X_train), seq.train, X_train),
         LAMBDA stacked_train :
    Let1(Stack(BasePredictions(self, X_val), seq.val, X_val),
         LAMBDA stacked_val :
      EnsembleTrainMeta([self EXCEPT !.lstm_model = seq.lstm_model],
                        stacked_train, stacked_val, y_train, y_val)))

\* a substitute that is the train partition's mean in both partitions
LSTMColumnsTrainMean(lstm_model, failed, train_pred, val_pred, y_train, y_val) ==
    [lstm_model |-> lstm_model,
     failed |-> failed,
     train  |-> IF failed THEN [k \in 1..Len(y_train) |-> MeanOf(y_train)]
                ELSE LastK(train_pred, Len(y_train)),
     val    |-> IF failed THEN [k \in 1..Len(y_val) |-> MeanOf(y_train)]
                ELSE LastK(val_pred, Len(y_val))]

\* the end of the try block around the sequence learner: its aligned columns,
\* or in the except branch the partition means
LSTMColumns(lstm_model, failed, train_pred, val_pred, y_train, y_val) ==
    [lstm_model |-> lstm_model,
     failed |-> failed,
     train  |-> IF failed THEN [k \in 1..Len(y_train) |-> MeanOf(y_train)]
                ELSE LastK(train_pred, Len(y_train)),
     val    |-> IF failed THEN [k \in 1..Len(y_val) |-> MeanOf(y_val)]
                ELSE LastK(val_pred, Len(y_val))]

\* self.lstm_model.train(data.iloc[:train_size + self.sequence_length], ...)
\* and the two predict calls on it
EnsembleTrainLSTM(self, data, train_size, y_train, y_val) ==
    Let1(Iloc(data, train_size + self.sequence_length), LAMBDA head :
    Let1(Iloc(data, train_size + self.sequence_length + Len(y_val)), LAMBDA all :
    Let1(SequenceTrain(self.lstm_model, head, ValidationPct), LAMBDA t :
      IF t.raised
      THEN LSTMColumns(t.self, TRUE, <<>>, <<>>, y_train, y_val)
      ELSE
      Let1(SequencePredict(t.self, head, Len(y_train)), LAMBDA p1 :
        IF p1.raised
        THEN LSTMColumns(t.self, TRUE, <<>>, <<>>, y_train, y_val)
        ELSE
        Let1(SequencePredict(t.self, all, Len(y_val)), LAMBDA p2 :
          LSTMColumns(t.self, p2.raised, p1.result, p2.result, y_train, y_val))))))

\* base_models when the loop is left at learner stop: those before it are fitted
FittedBefore(self, fit, stop) ==
    [b \in 1..NumTabular |-> IF b < stop THEN fit ELSE self.base_models[b]]

\* for model in self.base_models: fit, predict on both partitions; nothing
\* catches what a learner throws before the except of train
EnsembleTrainBase(self, data, X_train, X_val, y_train, y_val) ==
    IF Len(X_train) = 0 \/ self.faulty = 1
    THEN Raised(self, TrainErrorOf(self.kind))     \* the first fit throws
    ELSE
    Let1(RegressorFit(X_train, y_train, 1), LAMBDA fit :
      IF Len(X_val) = 0
      THEN \* the first learner is fitted, its predict rejects no rows
           Raised([self EXCEPT !.base_models[1] = fit], TrainErrorOf(self.kind))
      ELSE IF self.faulty # 0
      THEN \* the fit of learner faulty throws
           Raised([self EXCEPT !.base_models = FittedBefore(self, fit, self.faulty)],
                  TrainErrorOf(self.kind))
      ELSE
      Let1(EnsembleTrainLSTM(self, data, Len(X_train), y_train, y_val), LAMBDA seq :
        EnsembleTrainStack(
            [self EXCEPT !.base_models = [b \in 1..NumTabular |-> fit]],
            seq, X_train, X_val, y_train, y_val)))

\* EnsembleModel.train: prepare, train_size = int(len(X) * (1 -
\* validation_split)) and the four slices
EnsembleTrain(self, data, validation_pct) ==
    Let1(prepare_ensemble_data(data), LAMBDA prepared :
    Let1(TrainSize(Len(prepared.X), validation_pct), LAMBDA train_size :
    Let1(Slice(prepared.X, 0, train_size), LAMBDA X_train :
    Let1(Slice(prepared.X, train_size, Len(prepared.X)), LAMBDA X_val :
    Let1(Slice(prepared.y, 0, train_size), LAMBDA y_train :
    Let1(Slice(prepared.y, train_size, Len(prepared.y)), LAMBDA y_val :
      EnsembleTrainBase(self, data, X_train, X_val, y_train, y_val)))))))

\* a trend continuation whose first step stays at the last close
TrendFallbackFromZero(y, days_ahead) ==
    Let1(LastK(y, TrendWindow), LAMBDA recent :
      [i \in 1..Max(days_ahead, 0) |->
          IF Len(recent) = 1 THEN NaN
          ELSE y[Len(y)] + ((recent[Len(recent)] - recent[1]) * (i - 1))
                               \div (Len(recent) - 1)])

\* the except branch of predict: linear trend continuation from the last close;
\* np.mean(np.diff(y[-10:])) is the last minus the first of those closes over
\* their number less one, and nan when there is a single one
TrendFallback(y, days_ahead) ==
    Let1(LastK(y, TrendWindow), LAMBDA recent :
      [i \in 1..Max(days_ahead, 0) |->
          IF Len(recent) = 1 THEN NaN
          ELSE y[Len(y)] + ((recent[Len(recent)] - recent[1]) * i)
                               \div (Len(recent) - 1)])

\* a vector that starts with the feature row
PredVectorFeaturesFirst(base_predictions, seq_prediction, last_features) ==
    last_features \o base_predictions \o <<seq_prediction>>

\* the vector given to the meta-learner for one step
PredVector(base_predictions, seq_prediction, last_features) ==
    base_predictions \o <<seq_prediction>> \o last_features

\* a predict that degrades the last step only: the meta-learner on every
\* step but the last, which is the trend continuation's
EnsemblePredictBodyMixed(self, data, days_ahead) ==
    Let1(prepare_ensemble_data(data), LAMBDA prepared :
      IF Len(prepared.X) = 0
      THEN Raised(self, PredictError)
      ELSE IF self.faulty # 0
      THEN Raised(self, PredictError)
      ELSE
      Let1(prepared.X[Len(prepared.X)], LAMBDA last_features :
      Let1([b \in 1..NumTabular |->
               RegressorPredict(self.base_models[b], last_features)],
           LAMBDA base_predictions :
      Let1(SequencePredict(self.lstm_model, data, days_ahead), LAMBDA lstm :
        IF lstm.raised
        THEN Returned(self, TrendFallback(prepared.y, days_ahead))
        ELSE Returned(self,
                 [i \in 1..days_ahead |->
                     IF i = days_ahead
                     THEN TrendFallback(prepared.y, days_ahead)[i]
                     ELSE RegressorPredict(self.xgb_model,
                              PredVector(base_predictions, lstm.result[i],
                                         last_features))])))))

\* the try block of EnsembleModel.predict: the tabular learners on the last
\* feature row, the sequence learner, then the meta-learner on every step's
\* vector, or the fallback when the sequence learner's predict raised
EnsemblePredictBody(self, data, days_ahead) ==
    Let1(prepare_ensemble_data(data), LAMBDA prepared :
      IF Len(prepared.X) = 0
      THEN Raised(self, PredictError)      \* no last feature row to reshape
      ELSE IF self.faulty # 0
      THEN Raised(self, PredictError)      \* a tabular learner's predict throws
      ELSE
      Let1(prepared.X[Len(prepared.X)], LAMBDA last_features :
      Let1([b \in 1..NumTabular |->
               RegressorPredict(self.base_models[b], last_features)],
           LAMBDA base_predictions :
      Let1(SequencePredict(self.lstm_model, data, days_ahead), LAMBDA lstm :
        IF lstm.raised
        THEN Returned(self, TrendFallback(prepared.y, days_ahead))
        ELSE Returned(self,
                 [i \in 1..days_ahead |->
                     RegressorPredict(self.xgb_model,
                         PredVector(base_predictions, lstm.result[i],
                                    last_features))])))))

\* if not self.is_trained
EnsembleUntrained(self) == ~self.is_trained

\* EnsembleModel.predict
EnsemblePredict(self, data, days_ahead) ==
    IF EnsembleUntrained(self)
    THEN Raised(self, UntrainedError)
    ELSE EnsemblePredictBody(self, data, days_ahead)

\* train and predict of any of the three model classes
ModelTrain(self, data, validation_pct) ==
    IF self.kind = "ensemble" THEN EnsembleTrain(self, data, validation_pct)
    ELSE SequenceTrain(self, data, validation_pct)

ModelPredict(self, data, days_ahead) ==
    IF self.kind = "ensemble" THEN EnsemblePredict(self, data, days_ahead)
    ELSE SequencePredict(self, data, days_ahead)

\* predict called on one of the ensemble's tabular learners: a scikit-learn
\* estimator with no guard of the repository's around it
TabularPredict(self, b, row) ==
    IF self.faulty = b
    THEN Raised(self, LearnerError)
    ELSE IF ~self.base_models[b].fitted
    THEN Raised(self, NotFittedError)
    ELSE Returned(self, <<RegressorPredict(self.base_models[b], row)>>)

---------------------------------------------------------------------------
(* The core's public surface, driven on one instance: train, predict, and   *)
(* predict on one of an ensemble's tabular learners.                        *)

CoreSteps == {0 - 1, 0, 1}
CoreJumps == {0, 40, 0 - 300}
CoreRows ==
    {2, SeqLen + 1, SeqLen + 6, MA50Window + 1, MA50Window + 5,
     MA50Window + TrendWindow + 1}

EmptyFrame == Frame(0, 0, 0, 0, 0)

CoreFrames ==
    {EmptyFrame} \cup
    {Frame(n, 100, s, j, 0) : n \in CoreRows, s \in CoreSteps, j \in CoreJumps}

NoModels == [t \in {"lstm", "attention", "ensemble"} |-> <<>>]

\* no handler has a response pending
NoResponse == [op |-> "idle"]

\* most request threads of the host at a time
MaxThreads == 2
Threads == 1..MaxThreads

\* a thread between two requests; inst names the model instance its handler
\* works on, obj is the handler's reference to it, made counts the instances
\* the thread's handlers have constructed
IdleThread ==
    [pc |-> "idle", handler |-> "", model_type |-> "", days_ahead |-> 0,
     status |-> 0, inst |-> <<>>, obj |-> <<>>, made |-> 0]
NoThreads == [t \in Threads |-> IdleThread]
\* no train call has split its samples
NoSplit == [op |-> "idle"]

\* the windower has not been called
NoWindows == [op |-> "idle"]
\* DataProcessor(): a fresh MinMaxScaler (the feature_scaler is never read)
NewDataProcessor == [scaler |-> UnfittedScaler]
\* the DataProcessor instances of the indicator engine's callers
Processors == {1, 2}
\* the indicator engine has not been called
NoMatrix ==
    [op |-> "idle", calls |-> 0, procs |-> [p \in Processors |-> NewDataProcessor]]

Idle == [op |-> "idle", raised |-> FALSE, error |-> "", result |-> <<>>,
         history |-> NoHistory, days_ahead |-> 0, learner |-> 0,
         data |-> EmptyFrame]

CoreInit ==
    /\ core \in {NewSequenceModel("lstm", SeqLen),
                 NewSequenceModel("attention", SeqLen),
                 NewEnsembleModel(SeqLen)}
    /\ call = Idle
    /\ trained = FALSE
    /\ models = NoModels
    /\ resp = NoResponse
    /\ win = NoWindows
    /\ ind = NoMatrix
    /\ threads = NoThreads
    /\ split = NoSplit

CoreTrain ==
    /\ call.op = "idle"
    /\ \E data \in CoreFrames :
         \E r \in {ModelTrain(core, data, ValidationPct)} :
           /\ core' = r.self
           /\ call' = [Idle EXCEPT !.op = "train", !.raised = r.raised,
                                   !.error = r.error, !.data = data,
                                   !.history = IF r.raised THEN NoHistory
                                               ELSE r.result]
           /\ trained' = (trained \/ ~r.raised)
    /\ UNCHANGED <<models, resp, win, ind, threads, split>>

CorePredict ==
    /\ call.op = "idle"
    /\ \E data \in CoreFrames, days_ahead \in 0..MaxCoreDays :
         \E r \in {ModelPredict(core, data, days_ahead)} :
           /\ core' = r.self
           /\ call' = [Idle EXCEPT !.op = "predict", !.raised = r.raised,
                                   !.error = r.error, !.result = r.result,
                                   !.days_ahead = days_ahead, !.data = data]
    /\ UNCHANGED <<trained, models, resp, win, ind, threads, split>>

CoreTabularPredict ==
    /\ call.op = "idle"
    /\ core.kind = "ensemble"
    /\ \E b \in 1..NumTabular, data \in CoreFrames :
         /\ data.n >= MA50Window
         /\ \E r \in {TabularPredict(core, b, FeatureRow(data, data.n))} :
              /\ core' = r.self
              /\ call' = [Idle EXCEPT !.op = "tabular_predict",
                                      !.raised = r.raised, !.error = r.error,
                                      !.result = r.result, !.learner = b]
    /\ UNCHANGED <<trained, models, resp, win, ind, threads, split>>

\* one of the ensemble's tabular learners is replaced by one that throws
CoreBreakLearner ==
    /\ call.op = "idle"
    /\ core.kind = "ensemble"
    /\ core.faulty = 0
    /\ \E b \in 1..NumTabular : core' = [core EXCEPT !.faulty = b]
    /\ UNCHANGED <<call, trained, models, resp, win, ind, threads, split>>

CoreReturn ==
    /\ call.op # "idle"
    /\ call' = Idle
    /\ UNCHANGED <<core, trained, models, resp, win, ind, threads, split>>

CoreNext ==
    \/ CoreTrain
    \/ CorePredict
    \/ CoreTabularPredict
    \/ CoreBreakLearner
    \/ CoreReturn

SpecCore == CoreInit /\ [][CoreNext]_vars

---------------------------------------------------------------------------
(* Claims on the core *)

\* C1: predict on a model that was never successfully trained raises the
\* untrained-model error and returns no forecast, for the sequence learners,
\* the five tabular learners and the ensemble.
C1_PredictBeforeTrainRaises ==
    (call.op \in {"predict", "tabular_predict"} /\ ~trained)
        => (call.raised /\ call.error = UntrainedError /\ call.result = <<>>)

\* C2: a call to predict, returning or raising, leaves the whole model as it
\* was: is_trained, accuracy, training_history, the scaler and the regressors.
C2_PredictNeverTrains == [][call'.op = "predict" => core' = core]_vars

\* a predict has returned a forecast from a trained ensemble
C2_PredictReturned ==
    /\ call.op = "predict"
    /\ ~call.raised
    /\ Len(call.result) = MaxCoreDays
    /\ core.kind = "ensemble"
    /\ core.is_trained

\* C14: when exactly one of the five tabular learners throws during ensemble
\* training, on data the ensemble trains on without it, train still returns:
\* the ensemble is trained and the TrainingHistory has an accuracy >= 0.
C14_OneLearnerFailure ==
    [][(/\ call'.op = "train"
        /\ core.kind = "ensemble"
        /\ core.faulty # 0
        /\ ~EnsembleTrain([core EXCEPT !.faulty = 0], call'.data, ValidationPct).raised)
       => (/\ ~call'.raised
           /\ core'.is_trained
           /\ call'.history.set
           /\ call'.history.accuracy >= 0)]_vars

\* C15: after a successful ensemble training the five tabular learners and
\* the weighted sequence learner are trained, and the meta-learner was fitted
\* on seven prediction columns followed by the feature columns.
C15_SevenColumns ==
    (call.op = "train" /\ ~call.raised /\ core.kind = "ensemble") =>
        /\ \A b \in 1..5 : core.base_models[b].fitted
        /\ core.attention_model.is_trained
        /\ core.xgb_model.n_features = 7 + Len(FeatureRow(call.data, call.data.n))

\* C16: get_accuracy() is 0 while the model is untrained; a train call that
\* returns leaves it at the accuracy of the returned TrainingHistory, a value
\* from 0 to 100 that is 100 when the validation error is 0; no other call
\* (a train that raises, a predict) changes it.
C16_Accuracy ==
    [][/\ ~core.is_trained => GetAccuracy(core) = 0
       /\ ~core'.is_trained => GetAccuracy(core') = 0
       /\ IF call'.op = "train" /\ ~call'.raised
          THEN /\ core'.is_trained
               /\ GetAccuracy(core') = call'.history.accuracy
               /\ GetAccuracy(core') >= 0
               /\ GetAccuracy(core') <= 100
               /\ call'.history.final_mae = 0 => GetAccuracy(core') = 100
               /\ GetAccuracy(core') < 100 => call'.history.final_mae > 0
          ELSE GetAccuracy(core') = GetAccuracy(core)]_vars

\* a training whose validation error is above the prices themselves: the
\* accuracy returned and read back is the floor
C16_FlooredAccuracy ==
    /\ call.op = "train"
    /\ ~call.raised
    /\ core.is_trained
    /\ call.history.final_mae > 100
    /\ call.history.accuracy = 0
    /\ GetAccuracy(core) = 0

\* the closes of the rows create_features keeps of the data of the last call
KeptCloses == prepare_ensemble_data(call.data).y

\* C18: when the sequence learner fails in an ensemble training whose tabular
\* learners were fitted, its column is the partition's target mean (the train
\* mean in the train matrix, the validation mean in the validation matrix),
\* the meta-learner is fitted on it, the ensemble is trained and train returns
\* a TrainingHistory.
C18_MeanSubstitution ==
    [][(call'.op = "train" /\ core.kind = "ensemble" /\ core.faulty = 0) =>
        LET y == prepare_ensemble_data(call'.data).y
            train_size == (Len(y) * 80) \div 100
            y_train == SubSeq(y, 1, train_size)
            y_val == SubSeq(y, train_size + 1, Len(y))
            mean_train == SumSeq(y_train) \div Len(y_train)
            mean_val == SumSeq(y_val) \div Len(y_val)
        IN  (/\ train_size >= 1
             /\ Len(y_val) >= 1
             /\ EnsembleTrainLSTM(core, call'.data, train_size, y_train, y_val).failed)
            => /\ ~call'.raised
               /\ core'.is_trained
               /\ call'.history.set
               /\ core'.xgb_model.fitted
               /\ core'.xgb_model.drift = y_train[train_size] - mean_train
               /\ call'.history.final_mae =
                     SumSeq([k \in 1..Len(y_val) |->
                                Abs(y_val[k] - (mean_val + core'.xgb_model.drift))])
                         \div Len(y_val)]_vars

\* an ensemble trained, on closes that differ between the partitions, while
\* its sequence learner stayed untrained
C18_TrainedWithoutLSTM ==
    /\ call.op = "train"
    /\ ~call.raised
    /\ core.kind = "ensemble"
    /\ core.is_trained
    /\ ~core.lstm_model.is_trained
    /\ call.history.set
    /\ Len(KeptCloses) = 2
    /\ KeptCloses[1] # KeptCloses[2]

\* the sequence learner's forecast on the data of the last predict call
LSTMForecast == SequencePredict(core.lstm_model, call.data, call.days_ahead)

\* C19: on the normal path of EnsembleModel.predict the value of step k is
\* the meta-learner's output on [the five tabular predictions from the last
\* feature row, the sequence learner's k-th forecast, the last feature row].
C19_StackedVector ==
    (/\ call.op = "predict"
     /\ core.kind = "ensemble"
     /\ ~call.raised
     /\ ~LSTMForecast.raised) =>
        LET last_features == FeatureRow(call.data, call.data.n)
            tabular == [b \in 1..5 |-> RegressorPredict(core.base_models[b], last_features)]
        IN  /\ Len(call.result) = call.days_ahead
            /\ \A k \in 1..call.days_ahead :
                 call.result[k] =
                     RegressorPredict(core.xgb_model,
                         tabular \o <<LSTMForecast.result[k]>> \o last_features)

\* a normal-path forecast of the longest horizon whose steps differ
C19_NormalPath ==
    /\ call.op = "predict"
    /\ core.kind = "ensemble"
    /\ ~call.raised
    /\ core.lstm_model.is_trained
    /\ call.days_ahead = MaxCoreDays
    /\ ~LSTMForecast.raised
    /\ call.result[1] # call.result[2]
    /\ call.result[1] # LSTMForecast.result[1]

\* C20: when the tabular learners have predicted and the sequence learner's
\* predict raises, EnsembleModel.predict returns days_ahead values; value k
\* (from 1) is the last kept close plus k times the mean of the deltas of the
\* last ten kept closes (rounded down), and undefined when one close is kept.
C20_TrendFallback ==
    (/\ call.op = "predict"
     /\ core.kind = "ensemble"
     /\ core.is_trained
     /\ core.faulty = 0
     /\ Len(KeptCloses) >= 1
     /\ LSTMForecast.raised) =>
        LET y == KeptCloses
            m == IF Len(y) < 10 THEN Len(y) ELSE 10
            current_price == y[Len(y)]
            rise == y[Len(y)] - y[Len(y) - m + 1]
        IN  /\ ~call.raised
            /\ Len(call.result) = call.days_ahead
            /\ \A k \in 1..call.days_ahead :
                 IF m = 1 THEN call.result[k] = NaN
                 ELSE /\ rise * k - (call.result[k] - current_price) * (m - 1) >= 0
                      /\ rise * k - (call.result[k] - current_price) * (m - 1) < m - 1

\* a fallback forecast of the longest horizon from more than ten kept closes
\* whose last delta is a jump
C20_FallbackForecast ==
    /\ call.op = "predict"
    /\ core.kind = "ensemble"
    /\ ~call.raised
    /\ LSTMForecast.raised
    /\ call.days_ahead = MaxCoreDays
    /\ Len(KeptCloses) > TrendWindow
    /\ call.data.jump > 0
    /\ call.result[1] > KeptCloses[Len(KeptCloses)]

\* a predict call on a trained sequence learner with at least L rows of data
SequencePredictCall ==
    /\ call.op = "predict"
    /\ core.kind \in {"lstm", "attention"}
    /\ core.is_trained
    /\ call.data.n >= core.sequence_length

\* the buffer and the predictions of the pending predict call after k passes
BufferAfter(k) ==
    PredictLoop(core,
                LastK(ScalerTransform(core.scaler, CloseValues(call.data)),
                      core.sequence_length),
                k)

\* the rolling buffer before step k and the returned forecast are as stated
RollingBufferAsStated ==
    /\ ~call.raised
    /\ \E scaled \in {ScalerTransform(core.scaler, CloseValues(call.data))} :
       \E after \in {[k \in 0..call.days_ahead |-> BufferAfter(k)]} :
       \E done \in {after[call.days_ahead]} :
         /\ \A k \in 0..call.days_ahead :
               /\ Len(after[k].current_sequence) = core.sequence_length
               /\ after[k].predictions = SubSeq(done.predictions, 1, k)
               /\ k <= core.sequence_length =>
                    after[k].current_sequence
                        = LastK(scaled, core.sequence_length - k)
                              \o SubSeq(done.predictions, 1, k)
         /\ Len(done.predictions) = call.days_ahead
         /\ call.result = ScalerInverse(core.scaler, done.predictions)

NewLike(self) ==
    IF self.kind = "ensemble"
    THEN NewEnsembleModel(self.sequence_length)
    ELSE NewSequenceModel(self.kind, self.sequence_length)

\* core as it would be had it been created and trained on the data of the
\* pending train call only
TrainedAfresh == ModelTrain(NewLike(core), call.data, ValidationPct).self

\* the two instances forecast alike and report the same accuracy
SameBehaviour(a, b) ==
    /\ GetAccuracy(a) = GetAccuracy(b)
    /\ a.training_history = b.training_history
    /\ \A d \in CoreFrames, k \in 0..MaxCoreDays :
          /\ ModelPredict(a, d, k).raised = ModelPredict(b, d, k).raised
          /\ ModelPredict(a, d, k).result = ModelPredict(b, d, k).result

\* after a successful train call the model behaves as one trained on the
\* data of that call only
RetrainOverwrites ==
    (call.op = "train" /\ ~call.raised) => SameBehaviour(core, TrainedAfresh)

\* is_trained turns true only in a train call that returns, and never turns
\* false
LifecycleStep ==
    /\ (~core.is_trained /\ core'.is_trained)
          => (call'.op = "train" /\ ~call'.raised)
    /\ core.is_trained => core'.is_trained

\* the lifecycle alone: untrained on creation, trained by a successful train
LifecycleOnly == ~core.is_trained /\ [][LifecycleStep]_vars

\* the overwrite alone, on the sequence learners
RetrainOverwritesSequence == core.kind # "ensemble" => RetrainOverwrites

\* C23: is_trained is false on creation, becomes true only by a train call
\* that completes successfully and never returns to false; a second
\* successful train call overwrites the scaler fit, the regressor fit,
\* accuracy and training_history, so that later predictions and get_accuracy
\* depend only on the most recent training data.
C23_Lifecycle ==
    /\ ~core.is_trained
    /\ [][LifecycleStep]_vars
    /\ []RetrainOverwrites

\* C25: a train call that raises leaves the model as it was before the call:
\* scaler fit, regressor fits (the ensemble's sub-learners and their
\* is_trained flags included), is_trained, accuracy and training_history are
\* unchanged, so a trained model predicts as it did before the failed call.
C25_TrainAtomic ==
    [][(call'.op = "train" /\ call'.raised) => core' = core]_vars

\* the last feature row of the data of the pending call
LastFeatures == FeatureRow(call.data, call.data.n)

\* the vector EnsembleModel.predict gives the meta-learner at step k
MetaInput(k) ==
    PredVector([b \in 1..NumTabular |->
                   RegressorPredict(core.base_models[b], LastFeatures)],
               LSTMForecast.result[k], LastFeatures)

\* the row train stacks for a sample with these features and this value in
\* the sequence learner's column
StackedRow(features, seq_value) ==
    Stack(BasePredictions(core, <<features>>), <<seq_value>>, <<features>>)[1]

\* C27: the vector passed to the meta-learner at prediction time has as many
\* entries as the rows of the stacked matrix the meta-learner was fitted on
\* and the same column order: the base learners' predictions in learner
\* order, the sequence learner's column, then the tabular feature columns.
C27_SameLayout ==
    (/\ call.op = "predict"
     /\ core.kind = "ensemble"
     /\ ~call.raised
     /\ ~LSTMForecast.raised) =>
        \A k \in 1..call.days_ahead :
            /\ call.result[k] = RegressorPredict(core.xgb_model, MetaInput(k))
            /\ Len(MetaInput(k)) = core.xgb_model.n_features
            /\ MetaInput(k) = StackedRow(LastFeatures, LSTMForecast.result[k])

\* a forecast through the meta-learner whose feature row differs from the
\* tabular predictions, so that the order of the columns shows
C27_VectorPassed ==
    /\ call.op = "predict"
    /\ core.kind = "ensemble"
    /\ ~call.raised
    /\ ~LSTMForecast.raised
    /\ call.days_ahead = MaxCoreDays
    /\ LastFeatures[1] # MetaInput(1)[1]
    /\ MetaInput(1)[NumTabular + 1] # MetaInput(2)[NumTabular + 1]

\* every step of the pending forecast is the meta-learner's
AllFromMetaLearner ==
    /\ Len(call.result) = call.days_ahead
    /\ \A k \in 1..call.days_ahead :
          call.result[k] = RegressorPredict(core.xgb_model, MetaInput(k))

\* every step of the pending forecast is the linear-trend fallback's
AllFromTrendFallback ==
    call.result = TrendFallback(KeptCloses, call.days_ahead)

\* C28: within one predict call of the ensemble either every step comes from
\* the meta-learner or every step comes from the linear-trend fallback, and
\* an ensemble that is trained while its sequence learner is untrained takes
\* the fallback for all steps of every predict call until it is retrained.
C28_AllOrNothing ==
    (call.op = "predict" /\ core.kind = "ensemble" /\ ~call.raised) =>
        /\ IF LSTMForecast.raised
           THEN AllFromTrendFallback
           ELSE AllFromMetaLearner
        /\ ~core.lstm_model.is_trained => AllFromTrendFallback

\* a forecast of an ensemble trained without its sequence learner, on a
\* series on which a trained sequence learner would have forecast
C28_StickyFallback ==
    /\ call.op = "predict"
    /\ core.kind = "ensemble"
    /\ core.is_trained
    /\ ~core.lstm_model.is_trained
    /\ ~call.raised
    /\ call.days_ahead = MaxCoreDays
    /\ call.data.n > MA50Window + TrendWindow
    /\ AllFromTrendFallback
    /\ call.result[1] # call.result[MaxCoreDays]

---------------------------------------------------------------------------
(* Calendar dates of the host.  A datetime is kept as its day number from  *)
(* 2024-01-01 (a Monday, day 0); strftime('%Y-%m-%d') gives <<y, m, d>>.   *)

MonthDays == <<31, 29, 31, 30>>

DaysBefore(m) == SumSeq(SubSeq(MonthDays, 1, m - 1))

MonthOf(day) ==
    CHOOSE m \in 1..Len(MonthDays) :
        DaysBefore(m) <= day /\ day < DaysBefore(m) + MonthDays[m]

\* future_date.strftime('%Y-%m-%d')
Strftime(day) ==
    Let1(MonthOf(day), LAMBDA m : <<2024, m, day - DaysBefore(m) + 1>>)

\* datetime.weekday(): Monday is 0, Sunday is 6
Weekday(day) == day % 7

\* a skip that takes Saturday for a trading day
RECURSIVE SkipSundayOnly(_)
SkipSundayOnly(future_date) ==
    IF Weekday(future_date) > 5 THEN SkipSundayOnly(future_date + 1)
    ELSE future_date

\* while future_date.weekday() >= 5: future_date += timedelta(days=1)
RECURSIVE SkipWeekend(_)
SkipWeekend(future_date) ==
    IF Weekday(future_date) >= 5 THEN SkipWeekend(future_date + 1)
    ELSE future_date

\* the dates of range(1, days_ahead)
FutureDatesExclusive(last_date, days_ahead) ==
    [i \in 1..(days_ahead - 1) |-> Strftime(SkipWeekend(last_date + i))]

\* for i in range(1, days_ahead + 1): last_date + timedelta(days=i), past the
\* weekend, formatted
FutureDates(last_date, days_ahead) ==
    [i \in 1..days_ahead |-> Strftime(SkipWeekend(last_date + i))]

---------------------------------------------------------------------------
(* The forecast driver of predict_stock *)

\* a confidence without its floor
ConfidenceNoFloor(i) == 100 - i * 2

\* max(0.5, 1.0 - (i * 0.02)) in hundredths, i 0-based
Confidence(i) == Max(50, 100 - i * 2)

\* for i, (date, price) in enumerate(zip(future_dates, predictions))
PredictionData(future_dates, predictions) ==
    [k \in 1..Min(Len(future_dates), Len(predictions)) |->
        [date |-> future_dates[k],
         predicted_price |-> predictions[k],
         confidence |-> Confidence(k - 1)]]

\* a summary index that is always the last entry's
SummaryIndexLast(len) == len - 1

\* min(29, len(predictions) - 1), the 0-based index of the summary price
SummaryIndex(len) == Min(29, len - 1)

\* a recommendation whose thresholds are inclusive
RecommendationInclusive(price_change, current_price) ==
    IF price_change = NaN THEN "HOLD"
    ELSE IF price_change * 100 >= 5 * current_price THEN "BUY"
    ELSE IF price_change * 100 <= (0 - 5) * current_price THEN "SELL"
    ELSE "HOLD"

\* 'BUY' if price_change_percent > 5 else 'SELL' if price_change_percent < -5
\* else 'HOLD'; the percentage is price_change * 100 over current_price
\* (positive), and every comparison with nan is false
Recommendation(price_change, current_price) ==
    IF price_change = NaN THEN "HOLD"
    ELSE IF price_change * 100 > 5 * current_price THEN "BUY"
    ELSE IF price_change * 100 < (0 - 5) * current_price THEN "SELL"
    ELSE "HOLD"

\* a - b of floats, nan when a is
Minus(a, b) == IF a = NaN THEN NaN ELSE a - b

\* round((price_change / current_price) * 100, 2) in hundredths of a percent
PercentChange(price_change, current_price) ==
    IF price_change = NaN THEN NaN
    ELSE (price_change * 10000 * 2 + current_price) \div (2 * current_price)

ErrorResponse(op, status, error, hist, model_type, days_ahead) ==
    [op |-> op, status |-> status, error |-> error, hist |-> hist,
     model_type |-> model_type, days_ahead |-> days_ahead]

\* the result dict of predict_stock
PredictResult(model, hist, model_type, days_ahead, predictions) ==
    Let1(Close(hist, hist.n), LAMBDA current_price :
    Let1(predictions[SummaryIndex(Len(predictions)) + 1], LAMBDA predicted_price_30d :
    Let1(Minus(predicted_price_30d, current_price), LAMBDA price_change :
      [op |-> "predict", status |-> 200, error |-> "", hist |-> hist,
       model_type |-> model_type, days_ahead |-> days_ahead,
       current_price |-> current_price,
       predicted_price_30d |-> predicted_price_30d,
       price_change |-> price_change,
       price_change_percent |-> PercentChange(price_change, current_price),
       predictions |-> PredictionData(FutureDates(hist.date, days_ahead), predictions),
       model_accuracy |-> GetAccuracy(model),
       recommendation |-> Recommendation(price_change, current_price)])))

---------------------------------------------------------------------------
(* The host: the model registry and the two handlers *)

ModelTypes == {"lstm", "attention", "ensemble"}

\* LSTMModel(), AttentionModel(), EnsembleModel()
NewModel(model_type) ==
    CASE model_type = "lstm" -> NewSequenceModel("lstm", SeqLen)
      [] model_type = "attention" -> NewSequenceModel("attention", SeqLen)
      [] OTHER -> NewEnsembleModel(SeqLen)

\* DataProcessor.prepare_data: the rows in index order, none dropped (no cell
\* of a valid frame is undefined), with the indicator columns added
prepare_data(data) == [data EXCEPT !.prepared = TRUE]

\* predict_stock from the prediction on: the model of the slot on the
\* processed data, dates, horizon and summary
PredictWith(registry, hist, processed_data, model_type, days_ahead) ==
    Let1(ModelPredict(registry[model_type][1], processed_data, days_ahead), LAMBDA p :
      IF p.raised
      THEN [models |-> registry,
            resp |-> ErrorResponse("predict", 500, p.error, hist, model_type, days_ahead)]
      ELSE IF Len(p.result) = 0
      THEN \* predictions[min(29, len(predictions) - 1)] of an empty array
           [models |-> registry,
            resp |-> ErrorResponse("predict", 500, "index -1 is out of bounds",
                                   hist, model_type, days_ahead)]
      ELSE [models |-> registry,
            resp |-> PredictResult(registry[model_type][1], hist, model_type,
                                   days_ahead, p.result)])

\* predict_stock
predict_stock(registry, hist, model_type, days_ahead) ==
    IF hist.n = 0
    THEN [models |-> registry,
          resp |-> ErrorResponse("predict", 404, "No data found for this symbol",
                                 hist, model_type, days_ahead)]
    ELSE
    Let1(prepare_data(hist), LAMBDA processed_data :
      IF registry[model_type] = <<>>
      THEN \* models[model_type] = <Model>(); models[model_type].train(processed_data)
           Let1(ModelTrain(NewModel(model_type), processed_data, ValidationPct),
                LAMBDA t :
           Let1([registry EXCEPT ![model_type] = <<t.self>>], LAMBDA stored :
             IF t.raised
             THEN [models |-> stored,
                   resp |-> ErrorResponse("predict", 500, t.error, hist,
                                          model_type, days_ahead)]
             ELSE PredictWith(stored, hist, processed_data, model_type, days_ahead)))
      ELSE PredictWith(registry, hist, processed_data, model_type, days_ahead))

\* train_model
train_model(registry, hist, model_type) ==
    IF hist.n = 0
    THEN [models |-> registry,
          resp |-> ErrorResponse("train", 404, "No data found for this symbol",
                                 hist, model_type, 0)]
    ELSE
    Let1(ModelTrain(NewModel(model_type), prepare_data(hist), ValidationPct),
         LAMBDA t :
      IF t.raised
      THEN [models |-> registry,
            resp |-> ErrorResponse("train", 500, t.error, hist, model_type, 0)]
      ELSE [models |-> [registry EXCEPT ![model_type] = <<t.self>>],
            resp |-> [op |-> "train", status |-> 200, error |-> "", hist |-> hist,
                      model_type |-> model_type, days_ahead |-> 0,
                      training_history |-> t.result,
                      model_accuracy |-> GetAccuracy(t.self)]])

\* the last index entry of the histories: the seven days from Monday
\* 2024-02-19, Friday being 2024-02-23
LastDates == {49 + w : w \in 0..6}
Friday == 49 + 4

\* stock.history(...) of the symbols: a rising history ending on each day of
\* the week, a falling one, a rising one of 51 rows, a flat one, one of two
\* rows, and an unknown symbol's empty frame
Histories ==
    {Frame(MA50Window + 6, 100, 1, 0, date) : date \in LastDates}
    \cup {Frame(MA50Window + 6, 100, 0 - 1, 0, Friday),
          Frame(MA50Window + 1, 100, 1, 0, Friday),
          Frame(MA50Window + 6, 100, 0, 0, Friday),
          Frame(2, 100, 1, 0, Friday),
          EmptyFrame}

\* days_ahead of the requests: the short horizons and the longest ones
RequestDays == (0..7) \cup ((MaxDays - 3)..MaxDays)

Init ==
    /\ core = NewEnsembleModel(SeqLen)
    /\ call = Idle
    /\ trained = FALSE
    /\ models = NoModels
    /\ resp = NoResponse
    /\ win = NoWindows
    /\ ind = NoMatrix
    /\ threads = NoThreads
    /\ split = NoSplit

PredictStock ==
    /\ resp.op = "idle"
    /\ \E hist \in Histories, model_type \in ModelTypes, days_ahead \in RequestDays :
         \E out \in {predict_stock(models, hist, model_type, days_ahead)} :
           /\ models' = out.models
           /\ resp' = out.resp
    /\ UNCHANGED <<core, call, trained, win, ind, threads, split>>

TrainModel ==
    /\ resp.op = "idle"
    /\ \E hist \in Histories, model_type \in ModelTypes :
         \E out \in {train_model(models, hist, model_type)} :
           /\ models' = out.models
           /\ resp' = out.resp
    /\ UNCHANGED <<core, call, trained, win, ind, threads, split>>

\* return jsonify(...): the response leaves the handler
Respond ==
    /\ resp.op # "idle"
    /\ resp' = NoResponse
    /\ UNCHANGED <<core, call, trained, models, win, ind, threads, split>>

Next ==
    \/ PredictStock
    \/ TrainModel
    \/ Respond

Spec == Init /\ [][Next]_vars

---------------------------------------------------------------------------
(* Claims on the forecast driver *)

\* a predict_stock response that carries a Forecast Horizon
Forecast == resp.op = "predict" /\ resp.status = 200

\* the day number of a formatted date
DateDay(date) == DaysBefore(date[2]) + date[3] - 1

\* C3: the Forecast Horizon of a request for days_ahead >= 1 has exactly
\* days_ahead entries, for every model type and on the ensemble's fallback.
C3_HorizonLength ==
    (Forecast /\ resp.days_ahead >= 1)
        => Len(resp.predictions) = resp.days_ahead

\* the longest horizon, from an ensemble whose sequence learner is untrained
C3_FallbackHorizon ==
    /\ Forecast
    /\ resp.model_type = "ensemble"
    /\ resp.days_ahead = MaxDays
    /\ models["ensemble"] # <<>>
    /\ ~models["ensemble"][1].lstm_model.is_trained

\* C4: the dates of the Forecast Horizon are strictly increasing; no two
\* entries carry the same date.
C4_DatesStrictlyIncreasing ==
    Forecast =>
        \A k \in 1..(Len(resp.predictions) - 1) :
            DateDay(resp.predictions[k].date) < DateDay(resp.predictions[k + 1].date)

\* C5: no date of the Forecast Horizon is a Saturday or a Sunday, the first
\* one is after the last historical date, and after a Friday it is the Monday.
C5_NoWeekendDates ==
    (Forecast /\ resp.days_ahead >= 1) =>
        /\ \A k \in 1..Len(resp.predictions) :
              DateDay(resp.predictions[k].date) % 7 \notin {5, 6}
        /\ DateDay(resp.predictions[1].date) > resp.hist.date
        /\ (resp.hist.date % 7 = 4
               => DateDay(resp.predictions[1].date) = resp.hist.date + 3)

\* a horizon after Friday 2024-02-23 that starts on Monday 2024-02-26 and
\* runs over the leap day into March
C5_FridayToMonday ==
    /\ Forecast
    /\ resp.hist.date % 7 = 4
    /\ resp.days_ahead >= 7
    /\ resp.predictions[1].date = <<2024, 2, 26>>
    /\ resp.predictions[6].date = <<2024, 2, 29>>
    /\ resp.predictions[7].date = <<2024, 3, 1>>

\* C6: the confidence of entry i (0-based) is max(0.5, 1.0 - 0.02 * i): it
\* starts at 1.0, never increases and is never below 0.5.
C6_Confidence ==
    Forecast =>
        /\ \A k \in 1..Len(resp.predictions) :
              /\ resp.predictions[k].confidence
                    = (IF 100 - 2 * (k - 1) >= 50 THEN 100 - 2 * (k - 1) ELSE 50)
              /\ resp.predictions[k].confidence >= 50
        /\ resp.predictions[1].confidence = 100
        /\ \A k \in 1..(Len(resp.predictions) - 1) :
              resp.predictions[k + 1].confidence <= resp.predictions[k].confidence

\* a horizon on which the confidence has come down to its floor and stays
C6_FloorReached ==
    /\ Forecast
    /\ Len(resp.predictions) >= 28
    /\ resp.predictions[25].confidence = 52
    /\ resp.predictions[26].confidence = 50
    /\ resp.predictions[28].confidence = 50

\* C7: BUY when the change of the summary price against the current price is
\* above +5%, SELL when it is below -5%, HOLD otherwise, exactly +5% and -5%
\* included; from 100, 106 gives BUY, 94 SELL, 101 HOLD.
C7_Recommendation ==
    Forecast =>
        LET cur == resp.current_price
            defined == resp.predicted_price_30d # NaN
            change == resp.predicted_price_30d - cur
        IN  /\ resp.recommendation \in {"BUY", "SELL", "HOLD"}
            /\ (resp.recommendation = "BUY") <=> (defined /\ change * 100 > 5 * cur)
            /\ (resp.recommendation = "SELL") <=> (defined /\ change * 100 < (0 - 5) * cur)
            /\ (cur = 100 /\ resp.predicted_price_30d = 106) => resp.recommendation = "BUY"
            /\ (cur = 100 /\ resp.predicted_price_30d = 94) => resp.recommendation = "SELL"
            /\ (cur = 100 /\ resp.predicted_price_30d \in {95, 101, 105})
                  => resp.recommendation = "HOLD"

\* a change of exactly +5% answered with HOLD
C7_HoldAtFivePercent ==
    /\ Forecast
    /\ resp.current_price = 100
    /\ resp.predicted_price_30d = 105
    /\ resp.recommendation = "HOLD"

\* C8: the summary price is the prediction at 0-based index
\* min(30, days_ahead) - 1, and the price change and the percent change are
\* that price's against the last historical close.
C8_SummaryPrice ==
    (Forecast /\ resp.days_ahead >= 1) =>
        LET close == Close(resp.hist, resp.hist.n)
            summary == resp.predictions[Min(30, resp.days_ahead)].predicted_price
        IN  /\ resp.predicted_price_30d = summary
            /\ resp.current_price = close
            /\ summary # NaN =>
                  /\ resp.price_change = summary - close
                  /\ 2 * Abs(resp.price_change_percent * close
                                - (summary - close) * 10000) <= close

\* a horizon of more than 30 entries whose summary price is not its last
C8_ThirtiethDay ==
    /\ Forecast
    /\ resp.days_ahead > 30
    /\ resp.predicted_price_30d = resp.predictions[30].predicted_price
    /\ resp.predicted_price_30d # resp.predictions[resp.days_ahead].predicted_price
    /\ resp.price_change # 0

\* C24: in every reachable state of the registry every non-empty slot holds
\* a trained model, so a failed on-demand training never leaves an untrained
\* instance behind and no later predict request fails with the 'must be
\* trained' error.
C24_RegistryHoldsTrained ==
    /\ \A model_type \in ModelTypes :
          models[model_type] # <<>> => models[model_type][1].is_trained
    /\ (resp.op = "predict" /\ resp.status # 200) => resp.error # UntrainedError

---------------------------------------------------------------------------
(* The host under its threaded server: app.run serves every request on a   *)
(* thread of its own, and the handlers share the registry with no lock.    *)
(* A handler is cut where it calls train or predict on a model: the call   *)
(* starts in one step and returns in a later one.                          *)

\* most model instances the handlers of one thread construct
MaxInstances == 2

\* days_ahead of the concurrent requests
ThreadDays == {1, 2}

\* stock.history(...) of the concurrent requests: a rising history, or the
\* empty frame of an unknown symbol
ThreadHistory == Frame(MA50Window + 6, 100, 1, 0, Friday)
ThreadHistories == {ThreadHistory, EmptyFrame}

\* a model instance with the identity of the object
WithId(m, id) == m @@ [id |-> id]

\* the object a call started on instance inst works on: the registry's, while
\* the slot still holds that instance, else the one the handler referenced
ObjectOf(registry, th) ==
    IF registry[th.model_type] # <<>> /\ registry[th.model_type][1].id = th.inst
    THEN registry[th.model_type][1]
    ELSE th.obj

\* the registry after a call has changed the instance it works on in place
StoreInPlace(registry, th, m) ==
    IF registry[th.model_type] # <<>> /\ registry[th.model_type][1].id = th.inst
    THEN [registry EXCEPT ![th.model_type] = <<m>>]
    ELSE registry

\* a thread that has entered a call on the instance m
InCall(th, pc, m) == [th EXCEPT !.pc = pc, !.inst = m.id, !.obj = m]

\* a thread whose handler has answered: the handler's locals are gone
Answered(th, status) ==
    [IdleThread EXCEPT !.status = status, !.made = th.made]

ConcurrentInit ==
    /\ core = NewEnsembleModel(SeqLen)
    /\ call = Idle
    /\ trained = FALSE
    /\ models = NoModels
    /\ resp = NoResponse
    /\ win = NoWindows
    /\ ind = NoMatrix
    /\ threads = NoThreads
    /\ split = NoSplit

\* predict_stock up to its first call on a model: 404 for no data; for an
\* empty slot a new instance is stored and its train is entered, else the
\* predict of the slot's instance is entered
PredictBegin(t) ==
    /\ threads[t].pc = "idle"
    /\ \E hist \in ThreadHistories, model_type \in ModelTypes, days_ahead \in ThreadDays :
         LET th == [threads[t] EXCEPT !.handler = "predict_stock",
                                      !.model_type = model_type,
                                      !.days_ahead = days_ahead]
         IN  IF hist.n = 0
             THEN /\ threads' = [threads EXCEPT ![t] = Answered(th, 404)]
                  /\ UNCHANGED models
             ELSE IF models[model_type] = <<>>
             THEN /\ th.made < MaxInstances
                  /\ \E m \in {WithId(NewModel(model_type), <<t, th.made + 1>>)} :
                       /\ models' = [models EXCEPT ![model_type] = <<m>>]
                       /\ threads' = [threads EXCEPT ![t] =
                              InCall([th EXCEPT !.made = th.made + 1], "training", m)]
             ELSE /\ threads' = [threads EXCEPT ![t] =
                         InCall(th, "predicting", models[model_type][1])]
                  /\ UNCHANGED models
    /\ UNCHANGED <<core, call, trained, resp, win, ind, split>>

\* models[model_type].train(processed_data) returns or raises; after it the
\* handler enters predict on the instance the slot holds by then
PredictTrained(t) ==
    /\ threads[t].pc = "training"
    /\ \E r \in {ModelTrain(ObjectOf(models, threads[t]),
                            prepare_data(ThreadHistory), ValidationPct)} :
         \E stored \in {StoreInPlace(models, threads[t], r.self)} :
           /\ models' = stored
           /\ threads' = [threads EXCEPT ![t] =
                  IF r.raised THEN Answered(threads[t], 500)
                  ELSE InCall(threads[t], "predicting",
                              stored[threads[t].model_type][1])]
    /\ UNCHANGED <<core, call, trained, resp, win, ind, split>>

\* models[model_type].predict(processed_data, days_ahead) returns or raises,
\* and the handler answers
PredictDone(t) ==
    /\ threads[t].pc = "predicting"
    /\ \E p \in {ModelPredict(ObjectOf(models, threads[t]),
                              prepare_data(ThreadHistory), threads[t].days_ahead)} :
         threads' = [threads EXCEPT ![t] =
             Answered(threads[t], IF p.raised THEN 500 ELSE 200)]
    /\ UNCHANGED <<core, call, trained, models, resp, win, ind, split>>

\* train_model up to the train call on the instance it has constructed
TrainBegin(t) ==
    /\ threads[t].pc = "idle"
    /\ \E hist \in ThreadHistories, model_type \in ModelTypes :
         LET th == [threads[t] EXCEPT !.handler = "train_model",
                                      !.model_type = model_type,
                                      !.days_ahead = 0]
         IN  IF hist.n = 0
             THEN threads' = [threads EXCEPT ![t] = Answered(th, 404)]
             ELSE /\ th.made < MaxInstances
                  /\ threads' = [threads EXCEPT ![t] =
                         InCall([th EXCEPT !.made = th.made + 1], "training_local",
                                WithId(NewModel(model_type), <<t, th.made + 1>>))]
    /\ UNCHANGED <<core, call, trained, models, resp, win, ind, split>>

\* model.train(processed_data) returns or raises; a trained model is stored
\* in the slot, and the handler answers
TrainDone(t) ==
    /\ threads[t].pc = "training_local"
    /\ \E r \in {ModelTrain(threads[t].obj, prepare_data(ThreadHistory), ValidationPct)} :
         /\ models' = IF r.raised THEN models
                      ELSE [models EXCEPT ![threads[t].model_type] = <<r.self>>]
         /\ threads' = [threads EXCEPT ![t] =
                Answered(threads[t], IF r.raised THEN 500 ELSE 200)]
    /\ UNCHANGED <<core, call, trained, resp, win, ind, split>>

ConcurrentNext ==
    \E t \in Threads :
        \/ PredictBegin(t)
        \/ PredictTrained(t)
        \/ PredictDone(t)
        \/ TrainBegin(t)
        \/ TrainDone(t)

SpecConcurrent == ConcurrentInit /\ [][ConcurrentNext]_vars

\* a thread inside a train or predict call on a model instance
Busy(t) == threads[t].pc \in {"training", "predicting", "training_local"}

\* C17: at no time are two request threads inside train or predict calls on
\* the same model instance.
C17_SerializedAccess ==
    \A t1, t2 \in Threads :
        (t1 # t2 /\ Busy(t1) /\ Busy(t2)) => threads[t1].inst # threads[t2].inst

---------------------------------------------------------------------------
(* The Sequence Windower on its own: create_sequences of the DataProcessor *)
(* and prepare_sequences of an LSTMModel, on any short series.             *)

\* longest series and longest window of the windower's calls
MaxSeries == 4
MaxWindow == 3

\* the series of length up to MaxSeries over three values
SeriesOf(len) == [1..len -> {10, 20, 30}]
AllSeries == UNION {SeriesOf(len) : len \in 0..MaxSeries}

WindowerInit ==
    /\ core = NewEnsembleModel(SeqLen)
    /\ call = Idle
    /\ trained = FALSE
    /\ models = NoModels
    /\ resp = NoResponse
    /\ win = NoWindows
    /\ ind = NoMatrix
    /\ threads = NoThreads
    /\ split = NoSplit

CreateSequences ==
    /\ win.op = "idle"
    /\ \E values \in AllSeries, sequence_length \in 1..MaxWindow :
         \E out \in {create_sequences(values, sequence_length)} :
           win' = [op |-> "create_sequences", values |-> values,
                   sequence_length |-> sequence_length, X |-> out.X, y |-> out.y]
    /\ UNCHANGED <<core, call, trained, models, resp, ind, threads, split>>

PrepareSequences ==
    /\ win.op = "idle"
    /\ \E values \in AllSeries, sequence_length \in 1..MaxWindow :
         \E out \in {prepare_sequences(NewSequenceModel("lstm", sequence_length),
                                       values)} :
           win' = [op |-> "prepare_sequences", values |-> values,
                   sequence_length |-> sequence_length, X |-> out.X, y |-> out.y]
    /\ UNCHANGED <<core, call, trained, models, resp, ind, threads, split>>

\* the caller takes the arrays
WindowerReturn ==
    /\ win.op # "idle"
    /\ win' = NoWindows
    /\ UNCHANGED <<core, call, trained, models, resp, ind, threads, split>>

WindowerNext ==
    \/ CreateSequences
    \/ PrepareSequences
    \/ WindowerReturn

SpecWindower == WindowerInit /\ [][WindowerNext]_vars

\* C9: for a window length L >= 1 and a series of length N the windower
\* returns max(0, N - L) pairs; pair k (from 0) has the window
\* values[k .. k+L-1] of length L and the target values[k+L], so that
\* consecutive windows overlap by L - 1 values.
C9_Windows ==
    win.op # "idle" =>
        LET N == Len(win.values)
            L == win.sequence_length
            pairs == IF N > L THEN N - L ELSE 0
        IN  /\ Len(win.X) = pairs
            /\ Len(win.y) = pairs
            /\ \A k \in 0..(pairs - 1) :
                 /\ Len(win.X[k + 1]) = L
                 /\ \A j \in 0..(L - 1) : win.X[k + 1][j + 1] = win.values[k + j + 1]
                 /\ win.y[k + 1] = win.values[k + L + 1]
            /\ \A k \in 0..(pairs - 2) :
                 \A j \in 1..(L - 1) : win.X[k + 2][j] = win.X[k + 1][j + 1]

\* the longest series cut into windows of two values that differ
C9_SeveralWindows ==
    /\ win.op = "create_sequences"
    /\ win.sequence_length = 2
    /\ Len(win.values) = MaxSeries
    /\ Len(win.X) = MaxSeries - 2
    /\ win.X[1] = <<10, 20>>
    /\ win.y[1] = 30

---------------------------------------------------------------------------
(* The Indicator Engine: DataProcessor.add_technical_indicators.  Of the   *)
(* Feature Matrix the columns SMA_50, RSI and BB_position are kept, a cell *)
(* being a number or NaN.                                                  *)

\* rolling windows of RSI, the Bollinger bands and SMA_50
RSIWindow == 14
BBWindow == 20
SMA50Window == 50

\* delta.where(delta > 0, 0) and -delta.where(delta < 0, 0) on row j; the
\* first row's delta is undefined and counts as 0 in both
GainAt(d, j) ==
    IF j >= 2 /\ Close(d, j) > Close(d, j - 1) THEN Close(d, j) - Close(d, j - 1) ELSE 0

LossAt(d, j) ==
    IF j >= 2 /\ Close(d, j) < Close(d, j - 1) THEN Close(d, j - 1) - Close(d, j) ELSE 0

\* 100 - (100 / (1 + gain / loss)) of the two window sums: undefined for
\* 0 / 0, and 100 for a gain over no loss
RSIOf(gain, loss) ==
    IF gain = 0 /\ loss = 0 THEN NaN
    ELSE IF loss = 0 THEN 100
    ELSE 100 - (100 * loss) \div (gain + loss)

\* df['RSI'] on row i: rolling(window=14) is undefined on the first 13 rows
RSICell(d, i) ==
    IF i < RSIWindow THEN NaN
    ELSE RSIOf(SumSeq([k \in 1..RSIWindow |-> GainAt(d, i - RSIWindow + k)]),
               SumSeq([k \in 1..RSIWindow |-> LossAt(d, i - RSIWindow + k)]))

\* df['BB_position'] on row i: (Close - BB_lower) / BB_width is undefined on the
\* first 19 rows and where the window's deviation is 0 (0 / 0); a defined
\* cell is kept as the close's offset from the middle band, in twentieths
BBPositionCell(d, i) ==
    IF i < BBWindow THEN NaN
    ELSE IF \A k \in 1..BBWindow : Close(d, i - BBWindow + k) = Close(d, i) THEN NaN
    ELSE BBWindow * Close(d, i)
           - SumSeq([k \in 1..BBWindow |-> Close(d, i - BBWindow + k)])

\* df['SMA_50'] on row i, rounded down
SMA50Cell(d, i) ==
    IF i < SMA50Window THEN NaN
    ELSE SumSeq([k \in 1..SMA50Window |-> Close(d, i - SMA50Window + k)])
           \div SMA50Window

\* fillna(method='ffill'): the nearest defined cell above, when there is one
FFill(col) ==
    [i \in 1..Len(col) |->
        IF col[i] # NaN THEN col[i]
        ELSE IF \E j \in 1..(i - 1) : col[j] # NaN
        THEN col[CHOOSE j \in 1..(i - 1) :
                   col[j] # NaN /\ \A h \in (j + 1)..(i - 1) : col[h] = NaN]
        ELSE NaN]

\* fillna(method='bfill'): the nearest defined cell below, when there is one
BFill(col) ==
    [i \in 1..Len(col) |->
        IF col[i] # NaN THEN col[i]
        ELSE IF \E j \in (i + 1)..Len(col) : col[j] # NaN
        THEN col[CHOOSE j \in (i + 1)..Len(col) :
                   col[j] # NaN /\ \A h \in (i + 1)..(j - 1) : col[h] = NaN]
        ELSE NaN]

\* df.fillna(method='ffill').fillna(method='bfill') on one column
FillColumn(col) == Let1(FFill(col), BFill)

\* an engine whose Close column goes through the scaler of the first
\* DataProcessor, once that scaler is fitted
AddIndicatorsScaled(data) ==
    [Close |-> IF ind.procs[1].scaler.fitted
               THEN ScalerTransform(ind.procs[1].scaler, CloseValues(data))
               ELSE CloseValues(data),
     SMA_50 |-> FillColumn([i \in 1..data.n |-> SMA50Cell(data, i)]),
     RSI |-> FillColumn([i \in 1..data.n |-> RSICell(data, i)]),
     BB_position |-> FillColumn([i \in 1..data.n |-> BBPositionCell(data, i)])]

\* add_technical_indicators: the frame's rows with the indicator columns
add_technical_indicators(data) ==
    [Close |-> CloseValues(data),
     SMA_50 |-> FillColumn([i \in 1..data.n |-> SMA50Cell(data, i)]),
     RSI |-> FillColumn([i \in 1..data.n |-> RSICell(data, i)]),
     BB_position |-> FillColumn([i \in 1..data.n |-> BBPositionCell(data, i)])]

\* most rows of an indicator engine's input
MaxIndicatorRows == 52

IndicatorRows == {RSIWindow, BBWindow + 1} \cup ((SMA50Window + 1)..MaxIndicatorRows)

\* the engine's inputs: flat, rising and falling closes, some with a jump on
\* the last row, ending at several prices
IndicatorFrames ==
    {Frame(n, last, step, jump, 0) :
        n \in IndicatorRows, last \in {100, 150, 200},
        step \in CoreSteps, jump \in CoreJumps}

\* required_columns of prepare_data
RequiredColumns == {"Open", "High", "Low", "Close", "Volume"}

\* a DataFrame: a frame with the names of its columns
WithColumns(d, columns) == d @@ [columns |-> columns]

\* the column sets that lack one required column, or all of them
LackingColumns == {RequiredColumns \ {c} : c \in RequiredColumns} \cup {{}}

\* the DataFrames given to prepare_data: the engine's inputs and the empty
\* frame with every column, and two frames with columns missing
IndicatorInputs ==
    {WithColumns(d, RequiredColumns) : d \in IndicatorFrames \cup {EmptyFrame}}
    \cup {WithColumns(Frame(n, 100, 1, 0, 0), columns) :
             n \in {RSIWindow, MaxIndicatorRows}, columns \in LackingColumns}

ColumnsError == "Data must contain columns: ['Open', 'High', 'Low', 'Close', 'Volume']"

\* a column check that looks for Close alone
HasCloseColumn(data) == "Close" \in data.columns

\* all(col in data.columns for col in required_columns)
HasRequiredColumns(data) == RequiredColumns \subseteq data.columns

\* DataProcessor.prepare_data as called with a DataFrame: the column check,
\* then the sorted, cleaned frame with its indicator columns
PrepareDataCall(data) ==
    IF ~HasRequiredColumns(data)
    THEN [raised |-> TRUE, error |-> ColumnsError, data |-> data, matrix |-> <<>>]
    ELSE [raised |-> FALSE, error |-> "", data |-> prepare_data(data),
          matrix |-> add_technical_indicators(data)]

\* DataProcessor.normalize_data(data) with columns = ['Close']: the instance's
\* scaler is fitted anew on the column
normalize_data(self, data) ==
    [self |-> [self EXCEPT !.scaler = ScalerFit(CloseValues(data))],
     df |-> ScalerTransform(ScalerFit(CloseValues(data)), CloseValues(data))]

\* the frames given to normalize_data
NormalizeFrames == {Frame(RSIWindow, 100, 1, 0, 0), Frame(BBWindow, 300, 0 - 2, 0, 0)}

IndicatorInit ==
    /\ core = NewEnsembleModel(SeqLen)
    /\ call = Idle
    /\ trained = FALSE
    /\ models = NoModels
    /\ resp = NoResponse
    /\ win = NoWindows
    /\ ind = NoMatrix
    /\ threads = NoThreads
    /\ split = NoSplit

\* DataProcessor.prepare_data on instance p: a first call on any DataFrame,
\* then a second call on the frame the first one was given
PrepareData ==
    /\ ind.calls < 2
    /\ \E p \in Processors :
         \E data \in (IF ind.op = "idle" THEN IndicatorInputs ELSE {ind.input}) :
           \E out \in {PrepareDataCall(data)} :
             ind' = [op |-> "prepare_data", procs |-> ind.procs, proc |-> p,
                     calls |-> IF ind.op = "idle" THEN 1 ELSE 2,
                     given |-> IF ind.op = "idle" THEN data ELSE ind.given,
                     input |-> data,
                     raised |-> out.raised, error |-> out.error,
                     data |-> out.data, matrix |-> out.matrix,
                     first |-> IF ind.op = "idle" THEN out ELSE ind.first]
    /\ UNCHANGED <<core, call, trained, models, resp, win, threads, split>>

\* DataProcessor.normalize_data on instance p, before or between the calls
NormalizeData ==
    /\ ind.calls < 2
    /\ \E p \in Processors, data \in NormalizeFrames :
         \E out \in {normalize_data(ind.procs[p], data)} :
           ind' = [ind EXCEPT !.procs[p] = out.self]
    /\ UNCHANGED <<core, call, trained, models, resp, win, threads, split>>

\* the caller drops the two results
IndicatorReturn ==
    /\ ind.calls = 2
    /\ ind' = [op |-> "idle", calls |-> 0, procs |-> ind.procs]
    /\ UNCHANGED <<core, call, trained, models, resp, win, threads, split>>

IndicatorNext ==
    \/ PrepareData
    \/ NormalizeData
    \/ IndicatorReturn

SpecIndicators == IndicatorInit /\ [][IndicatorNext]_vars

MatrixColumns == {"Close", "SMA_50", "RSI", "BB_position"}

\* C10: for a series of more than 50 rows the Feature Matrix has the rows
\* of its input and, after the forward-then-backward fill, no undefined cell
\* in any column, columns undefined on every row included.
C10_NoUndefinedCell ==
    (ind.op # "idle" /\ ~ind.raised /\ ind.data.n > 50) =>
        \A c \in MatrixColumns :
            /\ Len(ind.matrix[c]) = ind.data.n
            /\ \A i \in 1..ind.data.n : ind.matrix[c][i] # NaN

C12_ColumnValidation ==
    ind.op = "prepare_data" =>
        IF {"Open", "High", "Low", "Close", "Volume"} \subseteq ind.given.columns
        THEN ~ind.raised /\ ind.error = "" /\ DOMAIN ind.matrix = MatrixColumns
        ELSE ind.raised /\ ind.error = ColumnsError /\ ind.matrix = <<>>

\* a frame of the most rows that lacks Volume alone is rejected
C12_VolumeMissing ==
    /\ ind.op = "prepare_data"
    /\ ind.given.n = MaxIndicatorRows
    /\ ind.given.columns = {"Open", "High", "Low", "Close"}
    /\ ind.raised
    /\ ind.matrix = <<>>

\* C13: data preparation of an empty OHLCV series does not return
\* successfully: prepare_data on a frame of no rows raises.
C13_EmptySeriesIsFatal ==
    (ind.op = "prepare_data" /\ ind.given.n = 0) => ind.raised

---------------------------------------------------------------------------
(* The train/validation split of a train call, on its own:                 *)
(* lstm_model.py 50-53, attention_model.py 57-60, ensemble_model.py 115-118 *)

\* the largest number of samples that is split
MaxSamples == 60

\* n samples in time order, each named by its position
SamplesOf(n) == [i \in 1..n |-> i]

SplitInit ==
    /\ core = NewSequenceModel("lstm", SeqLen)
    /\ call = Idle
    /\ trained = FALSE
    /\ models = NoModels
    /\ resp = NoResponse
    /\ win = NoWindows
    /\ ind = NoMatrix
    /\ threads = NoThreads
    /\ split = NoSplit

\* train_size = int(len(X) * (1 - validation_split));
\* X_train, X_val = X[:train_size], X[train_size:]; the same for y
SplitSamples ==
    /\ \E n \in 0..MaxSamples, validation_pct \in ValidationPcts :
         \E train_size \in {TrainSize(n, validation_pct)} :
           split' = [op |-> "split",
                     X |-> SamplesOf(n),
                     y |-> SamplesOf(n),
                     validation_pct |-> validation_pct,
                     train_size |-> train_size,
                     X_train |-> Slice(SamplesOf(n), 0, train_size),
                     X_val |-> Slice(SamplesOf(n), train_size, n),
                     y_train |-> Slice(SamplesOf(n), 0, train_size),
                     y_val |-> Slice(SamplesOf(n), train_size, n)]
    /\ UNCHANGED <<core, call, trained, models, resp, win, ind, threads>>

SplitNext == SplitSamples

SpecSplit == SplitInit /\ [][SplitNext]_vars

\* floor(n * (1 - v)) for v = pct / 100
FloorOfShare(n, pct) == (n * (100 - pct)) \div 100

\* C21: the training partition is exactly the first floor(n * (1 - v))
\* samples in time order and the validation partition exactly the remaining
\* samples: the partitions are disjoint, cover all samples, and every
\* training sample precedes every validation sample.
C21_ChronologicalSplit ==
    split.op = "split" =>
        LET n == Len(split.X)
            k == FloorOfShare(n, split.validation_pct)
        IN  /\ split.X_train = SubSeq(split.X, 1, k)
            /\ split.X_val = SubSeq(split.X, k + 1, n)
            /\ split.y_train = SubSeq(split.y, 1, k)
            /\ split.y_val = SubSeq(split.y, k + 1, n)
            /\ split.X_train \o split.X_val = split.X
            /\ \A i \in 1..Len(split.X_train), j \in 1..Len(split.X_val) :
                   split.X_train[i] < split.X_val[j]

---------------------------------------------------------------------------
(* The ensemble with the window length of the code: EnsembleModel() has     *)
(* sequence_length = 60, more than the 49 leading rows create_features      *)
(* drops, and is trained on series long enough for its sequence learner.    *)

\* def __init__(self, sequence_length=60)
DefaultSequenceLength == 60

LongRows ==
    {MA50Window + 1, DefaultSequenceLength + 1, DefaultSequenceLength + 2,
     DefaultSequenceLength + 6}

LongFrames ==
    {Frame(n, 100, s, j, 0) : n \in LongRows, s \in CoreSteps, j \in CoreJumps}

LongInit ==
    /\ core \in {NewEnsembleModel(SeqLen), NewEnsembleModel(DefaultSequenceLength)}
    /\ call = Idle
    /\ trained = FALSE
    /\ models = NoModels
    /\ resp = NoResponse
    /\ win = NoWindows
    /\ ind = NoMatrix
    /\ threads = NoThreads
    /\ split = NoSplit

\* EnsembleModel.train on a long series
LongTrain ==
    /\ call.op = "idle"
    /\ \E data \in LongFrames :
         \E r \in {ModelTrain(core, data, ValidationPct)} :
           /\ core' = r.self
           /\ call' = [Idle EXCEPT !.op = "train", !.raised = r.raised,
                                   !.error = r.error, !.data = data,
                                   !.history = IF r.raised THEN NoHistory
                                               ELSE r.result]
           /\ trained' = (trained \/ ~r.raised)
    /\ UNCHANGED <<models, resp, win, ind, threads, split>>

LongNext ==
    \/ LongTrain
    \/ CoreReturn

SpecLong == LongInit /\ [][LongNext]_vars

\* the raw rows create_features keeps of the series of the pending call
KeptRawRows == KeptRows(call.data, MA50Window)

\* the series the ensemble's train passes to its sequence learner's train
SequenceLearnerRows ==
    Iloc(call.data,
         TrainSize(Len(KeptRawRows), ValidationPct) + core.sequence_length)

\* C26: during ensemble training the rows of the raw series passed to the
\* sequence learner's train call all lie at or before the raw-series row of
\* the last training-partition sample: no base learner is fitted on data of
\* the validation partition.
C26_NoValidationRows ==
    (call.op = "train" /\ ~call.raised) =>
        SequenceLearnerRows.n
            <= KeptRawRows[TrainSize(Len(KeptRawRows), ValidationPct)]

============================================================================
